---------------------------- MODULE Spec2Model ----------------------------
(***************************************************************************)
(* Real-time layer of the task manager: the Socket.IO event handlers of    *)
(* app/websockets/events.py, the token blacklist of app/api/auth.py, the   *)
(* project-access rule of app/models/project.py and the broadcast helpers. *)
(*                                                                         *)
(* Flask-SocketIO and flask-jwt-extended are libraries, not code of the    *)
(* repository.  They are modelled by what they do for the calls the        *)
(* handlers make:                                                          *)
(*   join_room / leave_room   add / remove the calling sid in a room       *)
(*   disconnect, and the end of a connection   remove the sid from every   *)
(*                            room it is in                                *)
(*   emit(...) in a handler   one message to the calling sid               *)
(*   socketio.emit(room=r)    one message to every sid that is in r at the *)
(*                            time of the call                             *)
(*   socketio.emit()          without a room: one message to every sid     *)
(*                            whose connect handler has accepted it        *)
(*   verify_jwt_in_request    decodes the token of the Authorization       *)
(*                            header and asks token_in_blocklist_loader    *)
(***************************************************************************)
EXTENDS Integers, FiniteSets, Sequences, TLC

(* Bounds of the model: sids that exist, and how many of them the          *)
(* specifications with the full handler set (Spec, SpecEvents) hand out.   *)
MaxConns == 3
MaxOpen == 2
NumUsers == 2
NumProjects == 2
NumTokens == 3

None == 0

Conns == 1..MaxConns
Users == 1..NumUsers
Projects == 1..NumProjects

(* Access tokens that were issued and carry a good signature; the jti of   *)
(* token t is t.                                                           *)
Tokens == 1..NumTokens
(* A credential that never verifies: bad signature, expired, or a refresh  *)
(* token.                                                                  *)
BadToken == NumTokens + 1
(* What a client can present at connect: nothing, a token, or garbage.     *)
Credentials == {None} \cup Tokens \cup {BadToken}

(* identity claim of an issued token (create_access_token(identity=user.id)) *)
TokenUser(t) == ((t - 1) % NumUsers) + 1

(* Project.owner_id: fixed at creation, never reassigned by the API.       *)
owner_id(p) == ((p - 1) % NumUsers) + 1

(* A user room name that leaves the id out: one room for all users. *)
user_room_shared(u) == <<"user", 1>>

(* A project room named with the user prefix. *)
project_room_as_user(p) == <<"user", ((p - 1) % NumUsers) + 1>>

(* Room names: f'user_{id}' and f'project_{id}'. *)
user_room(u) == <<"user", u>>
project_room(p) == <<"project", p>>
RoomKeys == {user_room(u) : u \in Users} \cup {project_room(p) : p \in Projects}

(* Payload of a client message: not a dict at all, a dict without a usable *)
(* project_id (absent, None, 0, ''), or a dict naming a project.           *)
Malformed == -1
Payloads == {Malformed, None} \cup Projects

(* task.to_dict() as the broadcaster reads it: a task always has a creator *)
(* and a project (create_task requires both), the assignee is optional.    *)
TaskData == [created_by : Users, assigned_to : Users \cup {None}, project_id : Projects]
TaskEvents == {"task_created", "task_updated", "task_deleted"}

VARIABLES
    conn,                \* sid -> "Free" | "Connecting" | "Active" | "Closed"
    cred,                \* sid -> the token kept in the connection's environ
    uid,                 \* sid -> user_id obtained by on_connect, None before
    rooms,               \* room name -> set of sids (the framework's rooms)
    blacklisted_tokens,  \* set of revoked jti
    members,             \* rows of project_members: <<user, project>>
    last                 \* what the most recent operation did

vars == <<conn, cred, uid, rooms, blacklisted_tokens, members, last>>

NoSends == [c \in Conns |-> 0]

(* Record of the most recent operation: which handler ran for which sid    *)
(* with which input, the reply emitted to the caller (for a helper or a    *)
(* REST handler: how it came back to its caller), the rooms a broadcast    *)
(* aimed at and how many copies each sid was sent.                         *)
Did(op, sid, data, reply, to, targets, sent) ==
    [op |-> op, sid |-> sid, data |-> data, reply |-> reply, to |-> to,
     targets |-> targets, sent |-> sent]

Init ==
    /\ conn = [c \in Conns |-> "Free"]
    /\ cred = [c \in Conns |-> None]
    /\ uid = [c \in Conns |-> None]
    /\ rooms = [r \in RoomKeys |-> {}]
    /\ blacklisted_tokens = {}
    /\ members = {}
    /\ last = Did("init", None, None, "none", {}, {}, NoSends)

---------------------------------------------------------------------------
(* Library operations on the shared state. *)

(* A leave_room that takes the sid out of every room. *)
leave_room_everywhere(rs, sid, r) == [q \in DOMAIN rs |-> rs[q] \ {sid}]

join_room(rs, sid, r) == [rs EXCEPT ![r] = @ \cup {sid}]
leave_room(rs, sid, r) == [rs EXCEPT ![r] = @ \ {sid}]
(* End of a connection: the framework drops the sid from all its rooms. *)
close_rooms(rs, sid) == [r \in RoomKeys |-> rs[r] \ {sid}]
(* emit with broadcast=True: every open connection gets the reply. *)
emit_broadcast(sid) == {c \in Conns : conn[c] = "Active"} \cup {sid}

(* emit() inside a handler goes to the calling sid only. *)
emit(sid) == {sid}

(* A blocklist loader that never reports a jti as revoked. *)
check_if_token_revoked_never(jti) == FALSE

(* @jwt.token_in_blocklist_loader *)
check_if_token_revoked(jti) == jti \in blacklisted_tokens

(* verify_jwt_in_request(): signature, expiry and type, then the blocklist. *)
verify_jwt_in_request(t) == t \in Tokens /\ ~check_if_token_revoked(t)

(* Project.can_user_access *)
is_member(p, u) == <<u, p>> \in members
can_user_access(p, u) == u = owner_id(p) \/ is_member(p, u)

---------------------------------------------------------------------------
(* A transport that hands the sid of a closed connection out again. *)
open_connection_reuses_sid(c) ==
    /\ conn[c] \in {"Free", "Closed"}
    /\ conn' = [conn EXCEPT ![c] = "Connecting"]
    /\ last' = [op |-> "open", sid |-> c, data |-> None, reply |-> "none",
                to |-> {}, targets |-> {}, sent |-> NoSends]
    /\ UNCHANGED <<cred, uid, rooms, blacklisted_tokens, members>>

(* Transport-level connect: a client has opened a connection and holds a   *)
(* sid; on_connect has not run yet.  Sids are handed out in order.         *)
open_connection(c) ==
    /\ conn[c] = "Free"
    /\ \A d \in Conns : d < c => conn[d] # "Free"
    /\ conn' = [conn EXCEPT ![c] = "Connecting"]
    /\ last' = Did("open", c, None, "none", {}, {}, NoSends)
    /\ UNCHANGED <<cred, uid, rooms, blacklisted_tokens, members>>

(* on_connect whose except branches log the failure but neither           *)
(* disconnect nor return False: the connection is accepted as it is.       *)
on_connect_keeps_unverified(c, token) ==
    /\ conn[c] = "Connecting"
    /\ conn' = [conn EXCEPT ![c] = "Active"]
    /\ IF token # None /\ token \in Tokens /\ token \notin blacklisted_tokens
       THEN /\ cred' = [cred EXCEPT ![c] = token]
            /\ uid' = [uid EXCEPT ![c] = TokenUser(token)]
            /\ rooms' = [rooms EXCEPT ![<<"user", TokenUser(token)>>] = @ \cup {c}]
            /\ last' = [op |-> "connect", sid |-> c, data |-> token, reply |-> "status",
                        to |-> {c}, targets |-> {}, sent |-> NoSends]
       ELSE /\ last' = [op |-> "connect", sid |-> c, data |-> token, reply |-> "none",
                        to |-> {}, targets |-> {}, sent |-> NoSends]
            /\ UNCHANGED <<cred, uid, rooms>>
    /\ UNCHANGED <<blacklisted_tokens, members>>

(* on_connect(auth): no token, or a token that does not verify:            *)
(* disconnect() and return False.  Otherwise the token stays in the        *)
(* connection's environ (HTTP_AUTHORIZATION), the sid joins the user's     *)
(* room and 'status' is emitted to it.                                     *)
on_connect(c, token) ==
    /\ conn[c] = "Connecting"
    /\ IF token # None /\ verify_jwt_in_request(token)
       THEN /\ conn' = [conn EXCEPT ![c] = "Active"]
            /\ cred' = [cred EXCEPT ![c] = token]
            /\ uid' = [uid EXCEPT ![c] = TokenUser(token)]
            /\ rooms' = join_room(rooms, c, user_room(TokenUser(token)))
            /\ last' = Did("connect", c, token, "status", emit(c), {}, NoSends)
       ELSE /\ conn' = [conn EXCEPT ![c] = "Closed"]
            /\ rooms' = close_rooms(rooms, c)
            /\ last' = Did("connect", c, token, "none", {}, {}, NoSends)
            /\ UNCHANGED <<cred, uid>>
    /\ UNCHANGED <<blacklisted_tokens, members>>

(* on_disconnect if the end of a connection cleaned up nothing but what    *)
(* the handler itself leaves.                                              *)
on_disconnect_handler_only(c) ==
    /\ conn[c] = "Active"
    /\ \E user_id \in {None, uid[c]} :
          rooms' = IF user_id # None
                   THEN [rooms EXCEPT ![user_room(user_id)] = @ \ {c}]
                   ELSE rooms
    /\ conn' = [conn EXCEPT ![c] = "Closed"]
    /\ cred' = [cred EXCEPT ![c] = None]
    /\ uid' = [uid EXCEPT ![c] = None]
    /\ last' = [op |-> "disconnect", sid |-> c, data |-> None, reply |-> "none",
                to |-> {}, targets |-> {}, sent |-> NoSends]
    /\ UNCHANGED <<blacklisted_tokens, members>>

(* on_disconnect: the handler asks get_jwt_identity() without a verified   *)
(* token in this request, so it finds no identity (user_id = None) or the  *)
(* call raises into the bare except; when it does find one it leaves the   *)
(* user's room.  Either way the framework then drops the sid from every    *)
(* room, and the connection is gone.                                       *)
on_disconnect(c) ==
    /\ conn[c] = "Active"
    /\ \E user_id \in {None, uid[c]} :
          LET left == IF user_id # None
                      THEN leave_room(rooms, c, user_room(user_id))
                      ELSE rooms
          IN  rooms' = close_rooms(left, c)
    /\ conn' = [conn EXCEPT ![c] = "Closed"]
    /\ cred' = [cred EXCEPT ![c] = None]
    /\ uid' = [uid EXCEPT ![c] = None]
    /\ last' = Did("disconnect", c, None, "none", {}, {}, NoSends)
    /\ UNCHANGED <<blacklisted_tokens, members>>

(* on_join_project that hands the newcomer what the room was sent last. *)
on_join_project_replays(c, data) ==
    /\ conn[c] = "Active"
    /\ IF ~(cred[c] \in Tokens /\ cred[c] \notin blacklisted_tokens) \/ data = Malformed
       THEN /\ rooms' = rooms
            /\ last' = [op |-> "join_project", sid |-> c, data |-> data, reply |-> "error",
                        to |-> {c}, targets |-> {}, sent |-> NoSends]
       ELSE IF data # None
       THEN /\ rooms' = [rooms EXCEPT ![<<"project", data>>] = @ \cup {c}]
            /\ last' = [op |-> "join_project", sid |-> c, data |-> data, reply |-> "status",
                        to |-> {c}, targets |-> {},
                        sent |-> [d \in Conns |-> IF d = c THEN 1 ELSE 0]]
       ELSE /\ rooms' = rooms
            /\ last' = [op |-> "join_project", sid |-> c, data |-> data, reply |-> "none",
                        to |-> {}, targets |-> {}, sent |-> NoSends]
    /\ UNCHANGED <<conn, cred, uid, blacklisted_tokens, members>>

(* on_join_project: verify_jwt_in_request() on the token the connection    *)
(* was opened with, then data.get('project_id'); a truthy project_id is    *)
(* joined without any access check (the TODO of line 68).  Any exception   *)
(* is answered with 'error'.                                               *)
on_join_project(c, data) ==
    /\ conn[c] = "Active"
    /\ IF ~verify_jwt_in_request(cred[c]) \/ data = Malformed
       THEN /\ rooms' = rooms
            /\ last' = Did("join_project", c, data, "error", emit(c), {}, NoSends)
       ELSE IF data # None
       THEN /\ rooms' = join_room(rooms, c, project_room(data))
            /\ last' = Did("join_project", c, data, "status", emit(c), {}, NoSends)
       ELSE /\ rooms' = rooms
            /\ last' = Did("join_project", c, data, "none", {}, {}, NoSends)
    /\ UNCHANGED <<conn, cred, uid, blacklisted_tokens, members>>

(* on_leave_project that calls join_room where it should leave. *)
on_leave_project_joins(c, data) ==
    /\ conn[c] = "Active"
    /\ IF data = Malformed
       THEN /\ rooms' = rooms
            /\ last' = [op |-> "leave_project", sid |-> c, data |-> data, reply |-> "error",
                        to |-> {c}, targets |-> {}, sent |-> NoSends]
       ELSE IF data # None
       THEN /\ rooms' = [rooms EXCEPT ![<<"project", data>>] = @ \cup {c}]
            /\ last' = [op |-> "leave_project", sid |-> c, data |-> data, reply |-> "status",
                        to |-> {c}, targets |-> {}, sent |-> NoSends]
       ELSE /\ rooms' = rooms
            /\ last' = [op |-> "leave_project", sid |-> c, data |-> data, reply |-> "none",
                        to |-> {}, targets |-> {}, sent |-> NoSends]
    /\ UNCHANGED <<conn, cred, uid, blacklisted_tokens, members>>

(* on_leave_project: no token check at all. *)
on_leave_project(c, data) ==
    /\ conn[c] = "Active"
    /\ IF data = Malformed
       THEN /\ rooms' = rooms
            /\ last' = Did("leave_project", c, data, "error", emit(c), {}, NoSends)
       ELSE IF data # None
       THEN /\ rooms' = leave_room(rooms, c, project_room(data))
            /\ last' = Did("leave_project", c, data, "status", emit(c), {}, NoSends)
       ELSE /\ rooms' = rooms
            /\ last' = Did("leave_project", c, data, "none", {}, {}, NoSends)
    /\ UNCHANGED <<conn, cred, uid, blacklisted_tokens, members>>

(* A logout that revokes every token of the user who logs out. *)
logout_every_token_of_user(t) ==
    /\ t \in Tokens /\ t \notin blacklisted_tokens
    /\ blacklisted_tokens' = blacklisted_tokens \cup
                             {x \in Tokens : TokenUser(x) = TokenUser(t)}
    /\ last' = [op |-> "logout", sid |-> None, data |-> t, reply |-> "none",
                to |-> {}, targets |-> {}, sent |-> NoSends]
    /\ UNCHANGED <<conn, cred, uid, rooms, members>>

(* POST /auth/logout under @jwt_required(): the presented token must still *)
(* verify; its jti goes into the blacklist.  Nothing else is touched.      *)
logout(t) ==
    /\ verify_jwt_in_request(t)
    /\ blacklisted_tokens' = blacklisted_tokens \cup {t}
    /\ last' = Did("logout", None, t, "none", {}, {}, NoSends)
    /\ UNCHANGED <<conn, cred, uid, rooms, members>>

(* Task fan-out that also notifies the owner of the task's project. *)
task_emits_with_owner(td) ==
    <<user_room(td.created_by)>>
    \o (IF td.assigned_to # None /\ td.assigned_to # td.created_by
        THEN <<user_room(td.assigned_to)>> ELSE <<>>)
    \o <<project_room(td.project_id), user_room(owner_id(td.project_id))>>

(* broadcast_task_update: the socketio.emit calls it makes, in order. *)
task_emits(td) ==
    (IF td.created_by # None THEN <<user_room(td.created_by)>> ELSE <<>>)
    \o (IF td.assigned_to # None /\ td.assigned_to # td.created_by
        THEN <<user_room(td.assigned_to)>> ELSE <<>>)
    \o (IF td.project_id # None THEN <<project_room(td.project_id)>> ELSE <<>>)

(* An emit that falls back to every open connection when none of the rooms *)
(* it aims at has a member.                                                *)
deliveries_or_everyone(rs, emits) ==
    IF emits # <<>> /\ \A i \in DOMAIN emits : rs[emits[i]] = {}
    THEN [c \in Conns |-> IF conn[c] = "Active" THEN 1 ELSE 0]
    ELSE [c \in Conns |-> Cardinality({i \in DOMAIN emits : c \in rs[emits[i]]})]

(* Copies each sid is sent by a list of room emits: one per emit whose     *)
(* room holds the sid when the emit is made.                               *)
deliveries(rs, emits) ==
    [c \in Conns |-> Cardinality({i \in DOMAIN emits : c \in rs[emits[i]]})]

room_set(emits) == {emits[i] : i \in DOMAIN emits}

(* event_type is only the name the payload is emitted under: it is passed  *)
(* unchanged to every emit and decides nothing.                            *)
broadcast_task_update(td, event_type) ==
    /\ event_type \in TaskEvents
    /\ last' = Did("publish", None, td, "none", {},
                   room_set(task_emits(td)), deliveries(rooms, task_emits(td)))
    /\ UNCHANGED <<conn, cred, uid, rooms, blacklisted_tokens, members>>

(* POST /projects/<p>/members by the owner, with a token that verifies. *)
add_project_member(t, p, u) ==
    /\ verify_jwt_in_request(t)
    /\ owner_id(p) = TokenUser(t)
    /\ <<u, p>> \notin members
    /\ u # owner_id(p)
    /\ members' = members \cup {<<u, p>>}
    /\ last' = Did("add_member", None, <<u, p>>, "none", {}, {}, NoSends)
    /\ UNCHANGED <<conn, cred, uid, rooms, blacklisted_tokens>>

(* DELETE /projects/<p>/members/<u> by the owner. *)
remove_project_member(t, p, u) ==
    /\ verify_jwt_in_request(t)
    /\ owner_id(p) = TokenUser(t)
    /\ <<u, p>> \in members
    /\ members' = members \ {<<u, p>>}
    /\ last' = Did("remove_member", None, <<u, p>>, "none", {}, {}, NoSends)
    /\ UNCHANGED <<conn, cred, uid, rooms, blacklisted_tokens>>

---------------------------------------------------------------------------
(* Broadcast helpers called with an entity, and what can go wrong inside   *)
(* them: nothing, building the payload from the entity, or the k-th        *)
(* socketio.emit call.                                                     *)
Faults == {"none", "payload", "emit"}

(* The emits a helper gets through: all of them, or those before the one   *)
(* that raises; the except clause around them ends the helper there.       *)
emits_made(emits, fault, k) ==
    IF fault = "none" THEN emits
    ELSE IF fault = "payload" THEN <<>>
    ELSE SubSeq(emits, 1, k - 1)

(* Where a fault can strike: k only matters for a failing emit. *)
fault_at(emits, fault, k) ==
    IF fault = "emit" THEN k \in DOMAIN emits ELSE k = 1

failed_room(emits, fault, k) == IF fault = "emit" THEN emits[k] ELSE <<"none", None>>

(* emit_task_created / emit_task_updated / emit_task_deleted:              *)
(* task.to_dict() is called before broadcast_task_update and outside any   *)
(* try, so a fault there reaches the caller; a failing emit is caught by   *)
(* the try of broadcast_task_update, which wraps all three emits.          *)
emit_task(td, event_type, fault, k) ==
    /\ event_type \in TaskEvents
    /\ fault_at(task_emits(td), fault, k)
    /\ LET what == [task |-> td, fault |-> fault,
                    failed |-> failed_room(task_emits(td), fault, k)]
       IN  IF fault = "payload"
           THEN last' = Did("emit_task", None, what, "raised", {}, {}, NoSends)
           ELSE last' = Did("emit_task", None, what, "returned", {},
                            room_set(task_emits(td)),
                            deliveries(rooms, emits_made(task_emits(td), fault, k)))
    /\ UNCHANGED <<conn, cred, uid, rooms, blacklisted_tokens, members>>

emit_task_created(td, fault, k) == emit_task(td, "task_created", fault, k)
emit_task_updated(td, fault, k) == emit_task(td, "task_updated", fault, k)
emit_task_deleted(td, fault, k) == emit_task(td, "task_deleted", fault, k)

(* An assignment as assign_task leaves it: the task's assignee is the      *)
(* newly assigned user; assigned_by is whoever made the request.           *)
Assignments == [task : {td \in TaskData : td.assigned_to # None}, assigned_by : Users]

(* Assignment fan-out that also tells the user who made the assignment. *)
assignment_emits_with_assigner(a) ==
    <<user_room(a.task.assigned_to), project_room(a.task.project_id),
      user_room(a.assigned_by)>>

(* broadcast_task_assignment: 'task_assigned' to the assignee's room, then *)
(* 'task_assignment_changed' to the project's room.                        *)
assignment_emits(a) ==
    <<user_room(a.task.assigned_to), project_room(a.task.project_id)>>

(* Payload and emits are all inside one try: every fault is caught. *)
broadcast_task_assignment(a, fault, k) ==
    /\ fault_at(assignment_emits(a), fault, k)
    /\ last' = Did("task_assignment", None,
                   [task |-> a.task, assigned_by |-> a.assigned_by, fault |-> fault,
                    failed |-> failed_room(assignment_emits(a), fault, k)],
                   "returned", {}, room_set(assignment_emits(a)),
                   deliveries(rooms, emits_made(assignment_emits(a), fault, k)))
    /\ UNCHANGED <<conn, cred, uid, rooms, blacklisted_tokens, members>>

(* Project.to_dict() as the broadcaster reads it. *)
ProjectData == {[id |-> p, owner_id |-> owner_id(p)] : p \in Projects}

(* Project fan-out that leaves the owner's room out. *)
project_emits_room_only(pd) == <<project_room(pd.id)>>

(* broadcast_project_update: the owner's room, then the project's room. *)
project_emits(pd) ==
    (IF pd.owner_id # None THEN <<user_room(pd.owner_id)>> ELSE <<>>)
    \o (IF pd.id # None THEN <<project_room(pd.id)>> ELSE <<>>)

broadcast_project_update(pd, event_type) ==
    /\ event_type = "project_updated"
    /\ last' = Did("project_update", None, pd, "returned", {},
                   room_set(project_emits(pd)), deliveries(rooms, project_emits(pd)))
    /\ UNCHANGED <<conn, cred, uid, rooms, blacklisted_tokens, members>>

(* A member addition as add_project_member makes it: the owner adds a user *)
(* other than the owner.                                                   *)
MemberAdditions ==
    {[project_id |-> p, owner_id |-> owner_id(p), new_member |-> u, added_by |-> owner_id(p)] :
        p \in Projects, u \in Users}

(* Member fan-out aimed at the project owner instead of the new member. *)
member_added_emits_to_owner(m) ==
    <<user_room(m.owner_id), project_room(m.project_id)>>

(* broadcast_project_member_added: 'project_member_added' to the new       *)
(* member's room, then 'project_member_joined' to the project's room.      *)
member_added_emits(m) ==
    <<user_room(m.new_member), project_room(m.project_id)>>

broadcast_project_member_added(m) ==
    /\ m.new_member # m.owner_id
    /\ last' = Did("member_added", None, m, "returned", {},
                   room_set(member_added_emits(m)),
                   deliveries(rooms, member_added_emits(m)))
    /\ UNCHANGED <<conn, cred, uid, rooms, blacklisted_tokens, members>>

(* POST /tasks: the caller must be able to access the project, and so must *)
(* the assignee.  The commit can fail (500, rolled back).  The handler     *)
(* answers with the task and calls no broadcast helper.                    *)
create_task(t, td, committed) ==
    /\ verify_jwt_in_request(t)
    /\ td.created_by = TokenUser(t)
    /\ can_user_access(td.project_id, td.created_by)
    /\ td.assigned_to # None => can_user_access(td.project_id, td.assigned_to)
    /\ last' = Did("create_task", None, td, IF committed THEN "201" ELSE "500",
                   {}, {}, NoSends)
    /\ UNCHANGED <<conn, cred, uid, rooms, blacklisted_tokens, members>>

Next ==
    \/ \E c \in 1..MaxOpen : open_connection(c)
    \/ \E c \in Conns, token \in Credentials : on_connect(c, token)
    \/ \E c \in Conns : on_disconnect(c)
    \/ \E c \in Conns, data \in Payloads : on_join_project(c, data)
    \/ \E c \in Conns, data \in Payloads : on_leave_project(c, data)
    \/ \E t \in Tokens : logout(t)
    \/ \E td \in TaskData, e \in TaskEvents : broadcast_task_update(td, e)
    \/ \E t \in Tokens, p \in Projects, u \in Users : add_project_member(t, p, u)
    \/ \E t \in Tokens, p \in Projects, u \in Users : remove_project_member(t, p, u)

Spec == Init /\ [][Next]_vars

(* The broadcast side on its own: connections come, join, leave and go,    *)
(* while the helpers are called and tasks are created.  No token is        *)
(* revoked and no project member is added here.                            *)
NextEvents ==
    \/ \E c \in 1..MaxOpen : open_connection(c)
    \/ \E c \in Conns, token \in Credentials : on_connect(c, token)
    \/ \E c \in Conns : on_disconnect(c)
    \/ \E c \in Conns, data \in Payloads : on_join_project(c, data)
    \/ \E c \in Conns, data \in Payloads : on_leave_project(c, data)
    \/ \E td \in TaskData, f \in Faults, k \in 1..3 : emit_task_created(td, f, k)
    \/ \E td \in TaskData, f \in Faults, k \in 1..3 : emit_task_updated(td, f, k)
    \/ \E td \in TaskData, f \in Faults, k \in 1..3 : emit_task_deleted(td, f, k)
    \/ \E a \in Assignments, f \in Faults, k \in 1..2 : broadcast_task_assignment(a, f, k)
    \/ \E pd \in ProjectData : broadcast_project_update(pd, "project_updated")
    \/ \E m \in MemberAdditions : broadcast_project_member_added(m)
    \/ \E t \in Tokens, td \in TaskData, committed \in BOOLEAN : create_task(t, td, committed)

SpecEvents == Init /\ [][NextEvents]_vars

---------------------------------------------------------------------------
(* The remaining broadcast helpers, and the specification that runs them   *)
(* with all MaxConns connections.                                          *)

(* A notification that is also copied to the rooms of the user's projects. *)
notification_emits_with_projects(user_id) ==
    <<user_room(user_id), project_room(user_id)>>

(* broadcast_user_notification: the one emit it makes. *)
notification_emits(user_id) == <<user_room(user_id)>>

(* emit_user_notification builds the payload from its arguments and calls  *)
(* broadcast_user_notification, whose emit is inside try/except.           *)
broadcast_user_notification(user_id) ==
    /\ last' = Did("notification", None, user_id, "returned", {},
                   room_set(notification_emits(user_id)),
                   deliveries(rooms, notification_emits(user_id)))
    /\ UNCHANGED <<conn, cred, uid, rooms, blacklisted_tokens, members>>

(* A namespace that already holds the connections whose on_connect has not *)
(* run yet.                                                                *)
namespace_with_handshakes == {c \in Conns : conn[c] \in {"Connecting", "Active"}}

(* The connections of the namespace: those on_connect has accepted and     *)
(* that have not disconnected since.                                       *)
namespace == {c \in Conns : conn[c] = "Active"}

(* broadcast_system_maintenance: socketio.emit without a room goes to      *)
(* every connection of the namespace, once.                                *)
broadcast_system_maintenance ==
    /\ last' = Did("announcement", None, None, "returned", {}, {},
                   [c \in Conns |-> IF c \in namespace THEN 1 ELSE 0])
    /\ UNCHANGED <<conn, cred, uid, rooms, blacklisted_tokens, members>>

(* Statistics that are only sent when somebody is in the project room. *)
stats_emits_if_occupied(project_id) ==
    IF rooms[project_room(project_id)] = {} THEN <<>> ELSE <<project_room(project_id)>>

(* broadcast_project_stats_update: the one emit it makes. *)
stats_emits(project_id) == <<project_room(project_id)>>

(* The counts are read from the database first; when a query raises, the   *)
(* except branch logs and the emit is never made.                          *)
broadcast_project_stats_update(project_id, query_failed) ==
    /\ last' = Did("project_stats", None,
                   [project_id |-> project_id, query_failed |-> query_failed],
                   "returned", {}, room_set(stats_emits(project_id)),
                   IF query_failed THEN NoSends
                   ELSE deliveries(rooms, stats_emits(project_id)))
    /\ UNCHANGED <<conn, cred, uid, rooms, blacklisted_tokens, members>>

(* A bulk update whose statistics go out before the update itself. *)
bulk_events_stats_first(project_id, query_failed) ==
    (IF query_failed THEN <<>>
     ELSE <<[event |-> "project_stats_updated", room |-> project_room(project_id)]>>)
    \o <<[event |-> "bulk_task_update", room |-> project_room(project_id)]>>

(* broadcast_bulk_task_update: 'bulk_task_update' to the project room,     *)
(* then broadcast_project_stats_update(project_id).                        *)
bulk_events(project_id, query_failed) ==
    <<[event |-> "bulk_task_update", room |-> project_room(project_id)]>>
    \o (IF query_failed THEN <<>>
        ELSE <<[event |-> "project_stats_updated", room |-> project_room(project_id)]>>)

(* What sid c is sent by a list of emits, in the order of the emits: each  *)
(* connection's messages leave in the order they were handed over.         *)
received(rs, evs, c) ==
    LET mine(e) == c \in rs[e.room]
        got == SelectSeq(evs, mine)
    IN  [i \in 1..Len(got) |-> got[i].event]

broadcast_bulk_task_update(project_id, query_failed) ==
    /\ LET evs == bulk_events(project_id, query_failed)
           emits == [i \in 1..Len(evs) |-> evs[i].room]
       IN  last' = Did("bulk_update", None,
                       [project_id |-> project_id, query_failed |-> query_failed,
                        log |-> [c \in Conns |-> received(rooms, evs, c)]],
                       "returned", {}, room_set(emits), deliveries(rooms, emits))
    /\ UNCHANGED <<conn, cred, uid, rooms, blacklisted_tokens, members>>

NextDelivery ==
    \/ \E c \in Conns : open_connection(c)
    \/ \E c \in Conns, token \in Credentials : on_connect(c, token)
    \/ \E c \in Conns : on_disconnect(c)
    \/ \E c \in Conns, data \in Projects : on_join_project(c, data)
    \/ \E td \in TaskData, event_type \in TaskEvents : broadcast_task_update(td, event_type)
    \/ \E user_id \in Users : broadcast_user_notification(user_id)
    \/ broadcast_system_maintenance
    \/ \E p \in Projects, query_failed \in BOOLEAN : broadcast_project_stats_update(p, query_failed)
    \/ \E p \in Projects, query_failed \in BOOLEAN : broadcast_bulk_task_update(p, query_failed)

SpecDelivery == Init /\ [][NextDelivery]_vars

---------------------------------------------------------------------------
(* What the most recent operation was. *)
Published == last.op = "publish"
Connected(c) == last.op = "connect" /\ last.sid = c
InRoom(c) == {r \in RoomKeys : c \in rooms[r]}
Reached(targets) == UNION {rooms[r] : r \in targets}

(* C1: a join_project for project p from an Active connection whose user   *)
(* cannot access p is rejected: no membership changes, the connection      *)
(* stays Active and the reply is an error event.                           *)
C1_JoinWithoutAccessRejected ==
    [][\A c \in Conns, p \in Projects :
         ( /\ last'.op = "join_project"
           /\ last'.sid = c
           /\ last'.data = p
           /\ conn[c] = "Active"
           /\ ~can_user_access(p, uid[c]) )
         => ( /\ rooms' = rooms
              /\ conn'[c] = "Active"
              /\ last'.reply = "error" )]_vars

(* C2: once a token id is in the blacklist, no broadcast is delivered to a *)
(* connection that was authenticated with it.                              *)
C2_NoDeliveryAfterRevocation ==
    Published =>
        \A c \in Conns : cred[c] \in blacklisted_tokens => last.sent[c] = 0

(* C3: a publish delivers exactly one copy to every connection in the      *)
(* union of its target rooms and none to any other connection.             *)
C3_DeliveredExactlyOnce ==
    Published =>
        \A c \in Conns :
            last.sent[c] = IF c \in Reached(last.targets) THEN 1 ELSE 0

(* C4: a task event targets exactly the creator's user room, the task's    *)
(* project room, and the assignee's user room when there is an assignee    *)
(* other than the creator.                                                 *)
C4_TaskEventRooms ==
    Published =>
        last.targets =
            {<<"user", last.data.created_by>>, <<"project", last.data.project_id>>}
            \cup (IF last.data.assigned_to \in Users \ {last.data.created_by}
                  THEN {<<"user", last.data.assigned_to>>} ELSE {})

(* A task created by user 1 in a project owned by user 2 was published:    *)
(* the owner's user room is not among the targets and the owner's          *)
(* connection is sent nothing.                                             *)
C4_Witness ==
    /\ Published
    /\ owner_id(last.data.project_id) \notin {last.data.created_by, last.data.assigned_to}
    /\ <<"project", last.data.project_id>> \in last.targets
    /\ \E d \in Conns : /\ conn[d] = "Active"
                        /\ uid[d] = owner_id(last.data.project_id)
                        /\ last.sent[d] = 0

(* C5: a connection that has been deregistered is a member of no room, and *)
(* no broadcast is delivered to it.                                        *)
C5_ClosedInNoRoom ==
    \A c \in Conns :
        conn[c] = "Closed" =>
            /\ InRoom(c) = {}
            /\ Published => last.sent[c] = 0

(* A connection has just disconnected while another one is still in a room. *)
C5_Witness ==
    /\ last.op = "disconnect"
    /\ conn[last.sid] = "Closed"
    /\ \E d \in Conns : InRoom(d) # {}

(* C6: a connect with no token or with a token that does not verify ends   *)
(* Closed, bound to no user and in no room; a connection that is not       *)
(* Active is never bound and never in a room.                              *)
C6_BadTokenClosed ==
    \A c \in Conns :
        /\ (Connected(c) /\ last.data \notin Tokens) =>
               conn[c] = "Closed" /\ last.reply = "none"
        /\ conn[c] # "Active" => uid[c] = None /\ InRoom(c) = {}

(* A connect with a garbage token has just been turned away. *)
C6_Witness ==
    /\ last.op = "connect"
    /\ last.data = BadToken
    /\ conn[last.sid] = "Closed"

(* C7: after a connect with a token of user u that verifies, the           *)
(* connection is Active, bound to u, in room (user, u) and in no other.    *)
C7_ConnectJoinsOwnUserRoom ==
    \A c \in Conns :
        (Connected(c) /\ last.data \in Tokens \ blacklisted_tokens) =>
            /\ conn[c] = "Active"
            /\ uid[c] = TokenUser(last.data)
            /\ InRoom(c) = {<<"user", TokenUser(last.data)>>}
            /\ last.reply = "status" /\ last.to = {c}

(* A second connection has just authenticated while the first is active. *)
C7_Witness ==
    /\ last.op = "connect"
    /\ conn[last.sid] = "Active"
    /\ \E d \in Conns : d # last.sid /\ conn[d] = "Active"

(* C8: a connect with a token whose id is in the blacklist is terminated   *)
(* and joins no room.                                                      *)
C8_RevokedTokenRefused ==
    \A c \in Conns :
        (Connected(c) /\ last.data \in blacklisted_tokens) =>
            /\ conn[c] = "Closed"
            /\ uid[c] = None
            /\ InRoom(c) = {}

(* The second connect attempt with a revoked token has been refused. *)
C8_Witness ==
    /\ last.op = "connect"
    /\ last.data \in blacklisted_tokens
    /\ \A c \in 1..MaxOpen : conn[c] = "Closed"

(* C9: a join_project or leave_project from a connection whose token is    *)
(* revoked changes no membership on its behalf and closes the connection.  *)
C9_RevokedMessageTerminates ==
    [][\A c \in Conns :
         ( /\ last'.op \in {"join_project", "leave_project"}
           /\ last'.sid = c
           /\ conn[c] = "Active"
           /\ cred[c] \in blacklisted_tokens )
         => ( /\ conn'[c] = "Closed"
              /\ rooms' = close_rooms(rooms, c) )]_vars

---------------------------------------------------------------------------
HelperOps == {"emit_task", "task_assignment", "project_update", "member_added"}
UserRoomsOf(c) == {u \in Users : c \in rooms[<<"user", u>>]}

(* C11: no fault inside a broadcast helper reaches its caller: every       *)
(* emit_* / broadcast_* call returns normally.                             *)
C11_HelperAlwaysReturns ==
    last.op \in HelperOps => last.reply = "returned"

(* C12: when one emit of a helper fails, every connection in the other     *)
(* target rooms of the event is still sent the event.                      *)
C12_FailureIsolated ==
    (last.op \in {"emit_task", "task_assignment"} /\ last.data.fault = "emit") =>
        \A r \in last.targets \ {last.data.failed} :
            \A c \in rooms[r] : last.sent[c] >= 1

(* C13: a REST mutation that committed has published its event.            *)
C13_CommitPublishes ==
    (last.op = "create_task" /\ last.reply = "201") => last.targets # {}

(* C14: a join_project by an authorised connection adds exactly this       *)
(* connection to the project's room (once, however often it joins), a      *)
(* leave_project removes exactly it, and a leave by a non-member changes   *)
(* nothing.                                                                *)
C14_JoinLeaveAsSets ==
    [][\A c \in Conns, p \in Projects :
         ( /\ last'.op \in {"join_project", "leave_project"}
           /\ last'.sid = c
           /\ last'.data = p
           /\ conn[c] = "Active"
           /\ cred[c] \in Tokens \ blacklisted_tokens
           /\ (uid[c] = owner_id(p) \/ <<uid[c], p>> \in members) )
         => rooms' = [r \in RoomKeys |->
                        IF r # <<"project", p>> THEN rooms[r]
                        ELSE IF last'.op = "join_project" THEN rooms[r] \cup {c}
                        ELSE rooms[r] \ {c}]]_vars

(* A connection has left a project room while it stays in the other one    *)
(* and a second connection stays in the room that was left.                *)
C14_Witness ==
    /\ last.op = "leave_project"
    /\ last.data \in Projects
    /\ last.sid \notin rooms[<<"project", last.data>>]
    /\ rooms[<<"project", last.data>>] # {}
    /\ \E q \in Projects : last.sid \in rooms[<<"project", q>>]

(* C16: a connection is bound to one user at most and is in no per-user    *)
(* room but the one of the user it authenticated as.                       *)
C16_OnlyOwnUserRoom ==
    \A c \in Conns :
        /\ conn[c] = "Active" => uid[c] \in Users /\ UserRoomsOf(c) = {uid[c]}
        /\ conn[c] # "Active" => UserRoomsOf(c) = {}

(* A connection sits in the room of the project whose id is another        *)
(* user's id, and is still in its own user room only.                      *)
C16_Witness ==
    \E c \in Conns, p \in Projects :
        /\ conn[c] = "Active"
        /\ p \in Users /\ p # uid[c]
        /\ c \in rooms[<<"project", p>>]

C18_AssignmentRooms ==
    last.op = "task_assignment" =>
        last.targets = {<<"user", last.data.task.assigned_to>>,
                        <<"project", last.data.task.project_id>>}

(* An assignment made by a user other than the assignee and the creator    *)
(* has gone out, and an active connection of that user was sent nothing.   *)
C18_Witness ==
    /\ last.op = "task_assignment"
    /\ last.data.fault = "none"
    /\ last.data.assigned_by # last.data.task.assigned_to
    /\ \E d \in Conns : /\ conn[d] = "Active"
                        /\ uid[d] = last.data.assigned_by
                        /\ last.sent[d] = 0

(* C19: a project update targets exactly the owner's user room and the     *)
(* project's room.                                                         *)
C19_ProjectUpdateRooms ==
    last.op = "project_update" =>
        last.targets = {<<"user", last.data.owner_id>>, <<"project", last.data.id>>}

(* A project update reached the owner's connection and a member of the     *)
(* project room, and passed by a connection that is in neither room.       *)
C19_Witness ==
    /\ last.op = "project_update"
    /\ \E c, d \in Conns :
          /\ uid[c] = last.data.owner_id /\ last.sent[c] >= 1
          /\ uid[d] # last.data.owner_id /\ conn[d] = "Active" /\ last.sent[d] = 0

(* C20 as claimed: a member addition targets exactly the project owner's   *)
(* user room and the project's room.                                       *)
C20_MemberAddedToOwner ==
    last.op = "member_added" =>
        last.targets = {<<"user", last.data.owner_id>>, <<"project", last.data.project_id>>}

(* C20 as amended: a member addition targets exactly the new member's user *)
(* room and the project's room.                                            *)
C20_MemberAddedToNewMember ==
    last.op = "member_added" =>
        last.targets = {<<"user", last.data.new_member>>, <<"project", last.data.project_id>>}

(* A member addition reached the new member's connection; the owner's      *)
(* connection, outside the project room, was sent nothing.                 *)
C20_Witness ==
    /\ last.op = "member_added"
    /\ \E c, d \in Conns :
          /\ uid[c] = last.data.new_member /\ last.sent[c] = 1
          /\ uid[d] = last.data.owner_id /\ conn[d] = "Active" /\ last.sent[d] = 0

---------------------------------------------------------------------------
RoomOps == {"publish", "notification", "project_stats", "bulk_update"}
Frame == <<conn, cred, uid, rooms, blacklisted_tokens, members>>

(* C21: a notification for user u targets the room (user, u) alone and is  *)
(* sent, once, to the connections in that room and to no other.            *)
C21_NotificationOnlyUserRoom ==
    last.op = "notification" =>
        /\ last.targets = {<<"user", last.data>>}
        /\ \A c \in Conns :
              last.sent[c] = IF c \in rooms[<<"user", last.data>>] THEN 1 ELSE 0

(* A notification reached the user's connection while another user's       *)
(* connection sat in a project room and was sent nothing.                  *)
C21_Witness ==
    /\ last.op = "notification"
    /\ \E c, d \in Conns :
          /\ uid[c] = last.data /\ last.sent[c] = 1
          /\ conn[d] = "Active" /\ uid[d] # last.data
          /\ \E p \in Projects : d \in rooms[<<"project", p>>]
          /\ last.sent[d] = 0

(* C22: a system announcement is sent, once, to every connection that has  *)
(* completed authentication and is still open, and to no other.            *)
C22_AnnouncementToActive ==
    last.op = "announcement" =>
        \A c \in Conns : last.sent[c] = IF conn[c] = "Active" THEN 1 ELSE 0

(* Two authenticated connections, one of them in a project room, and one   *)
(* connection still in its handshake: exactly the two were sent it.        *)
C22_Witness ==
    /\ last.op = "announcement"
    /\ Cardinality({c \in Conns : conn[c] = "Active"}) = 2
    /\ Cardinality({c \in Conns : conn[c] = "Connecting"}) = 1
    /\ \E c, d \in Conns : /\ conn[c] = "Active" /\ conn[d] = "Active"
                           /\ InRoom(c) # InRoom(d)
    /\ {c \in Conns : last.sent[c] >= 1} = {c \in Conns : conn[c] = "Active"}

(* C23: a broadcast whose target rooms are all empty sends nothing,        *)
(* changes no connection and no room, and returns normally.                *)
C23_EmptyRoomsNoWork ==
    [][(last'.op \in RoomOps /\ \A r \in last'.targets : rooms[r] = {}) =>
           /\ \A c \in Conns : last'.sent[c] = 0
           /\ last'.reply # "raised"
           /\ Frame' = Frame]_vars

(* A task event went out to empty rooms while a connection was open in     *)
(* other rooms.                                                            *)
C23_Witness ==
    /\ last.op = "publish"
    /\ last.targets # {}
    /\ \A r \in last.targets : rooms[r] = {}
    /\ \E c \in Conns : conn[c] = "Active" /\ InRoom(c) # {}

(* C24: the rooms a task event or a statistics update aims at are a        *)
(* function of the payload alone, the same for a repeated event whatever   *)
(* the memberships are, and no membership changes.                         *)
C24_RoomsFromPayloadOnly ==
    [][last'.op \in {"publish", "project_stats"} =>
           /\ rooms' = rooms
           /\ last'.op = "publish" =>
                 last'.targets =
                     {<<"user", last'.data.created_by>>,
                      <<"project", last'.data.project_id>>}
                     \cup (IF last'.data.assigned_to # 0
                           THEN {<<"user", last'.data.assigned_to>>} ELSE {})
           /\ last'.op = "project_stats" =>
                 last'.targets = {<<"project", last'.data.project_id>>}
           /\ (last.op = last'.op /\ last.data = last'.data) =>
                 last'.targets = last.targets]_vars

(* A statistics update aimed at a project room that is empty while the     *)
(* other project room has a member.                                        *)
C24_Witness ==
    /\ last.op = "project_stats"
    /\ rooms[<<"project", last.data.project_id>>] = {}
    /\ \E q \in Projects : rooms[<<"project", q>>] # {}

(* C25: the members of the project room are sent 'bulk_task_update' and    *)
(* then 'project_stats_updated', in this order; nobody else is sent either.*)
C25_BulkBeforeStats ==
    last.op = "bulk_update" =>
        \A c \in Conns :
            last.data.log[c] =
                IF c \notin rooms[<<"project", last.data.project_id>>] THEN <<>>
                ELSE IF last.data.query_failed THEN <<"bulk_task_update">>
                ELSE <<"bulk_task_update", "project_stats_updated">>

(* Two members of the room have been sent both events, a third             *)
(* connection outside the room neither.                                    *)
C25_Witness ==
    /\ last.op = "bulk_update"
    /\ ~last.data.query_failed
    /\ Cardinality(rooms[<<"project", last.data.project_id>>]) = 2
    /\ \E d \in Conns : conn[d] = "Active" /\ last.data.log[d] = <<>>

(* C26: events are sent only while a broadcast runs and only to the        *)
(* connections that are then open and in a target room: a connect or a     *)
(* join is sent nothing that was published before.                         *)
C26_NoReplay ==
    [][\A c \in Conns :
          last'.sent[c] > 0 =>
              /\ last'.op \in RoomOps \cup {"announcement"}
              /\ conn[c] = "Active"
              /\ last'.op \in RoomOps => \E r \in last'.targets : c \in rooms[r]]_vars

(* After a connection ended, another one has joined a project room that    *)
(* already had a member.                                                   *)
C26_Witness ==
    /\ last.op = "join_project"
    /\ last.reply = "status"
    /\ last.sent[last.sid] = 0
    /\ \E d \in Conns : d # last.sid /\ d \in rooms[<<"project", last.data>>]
    /\ \E e \in Conns : conn[e] = "Closed"

(* C28: once remove_project_member has taken a user's membership of        *)
(* project p away, no connection of that user is in the room (project, p). *)
C28_RemovedMemberLeavesRoom ==
    [][last'.op = "remove_member" =>
           \A c \in rooms'[<<"project", last'.data[2]>>] :
               uid'[c] # last'.data[1]]_vars

(* C29: a join_project or leave_project of connection c touches nothing    *)
(* but c's own membership of the project room it names; without a usable   *)
(* project_id it touches nothing.                                          *)
C29_JoinLeaveFrame ==
    [][\A c \in Conns :
          (last'.op \in {"join_project", "leave_project"} /\ last'.sid = c) =>
              /\ conn' = conn /\ uid' = uid /\ cred' = cred
              /\ \A r \in RoomKeys :
                    /\ rooms'[r] \ {c} = rooms[r] \ {c}
                    /\ r # <<"project", last'.data>> => rooms'[r] = rooms[r]]_vars

(* A connection that was in both project rooms has left one of them: it is *)
(* still in the other and in its user room, and the connection it shared   *)
(* the room with is still there.                                           *)
C29_Witness ==
    /\ last.op = "leave_project"
    /\ last.reply = "status"
    /\ conn[last.sid] = "Active"
    /\ last.sid \in rooms[<<"user", uid[last.sid]>>]
    /\ \E d \in Conns : d # last.sid /\ d \in rooms[<<"project", last.data>>]
    /\ \E q \in Projects : q # last.data /\ last.sid \in rooms[<<"project", q>>]
    /\ members # {}

(* C30: the blacklist never loses a token, and it changes only when a      *)
(* logout adds the one token that logout was called with.                  *)
C30_BlacklistGrowsByLogoutOnly ==
    [][/\ blacklisted_tokens \subseteq blacklisted_tokens'
       /\ blacklisted_tokens' # blacklisted_tokens =>
             /\ last'.op = "logout"
             /\ blacklisted_tokens' = blacklisted_tokens \cup {last'.data}]_vars

(* After a user's logout a connection has authenticated with another token *)
(* of the same user.                                                       *)
C30_Witness ==
    /\ last.op = "connect"
    /\ conn[last.sid] = "Active"
    /\ \E t \in blacklisted_tokens :
          t # cred[last.sid] /\ (((t - 1) % NumUsers) + 1) = uid[last.sid]

=============================================================================
